---- MODULE Spec2Model ----
(***************************************************************************)
(* record_build: the one-pass parser of an `strace -f` log that rebuilds   *)
(* the dependency list of every gcc/g++ invocation of a build              *)
(* (src/record_build.c).                                                   *)
(*                                                                         *)
(* C strings are TLA+ strings; offsets are 0-based as in the source.  The  *)
(* 512-byte line buffer is kept as its memory image, because the source    *)
(* keeps pointers into it (pwd) and writes terminators into it.            *)
(***************************************************************************)
EXTENDS Integers, Sequences, FiniteSets, TLC

\* ------------------------------------------------------------------------
\* C string helpers
\* ------------------------------------------------------------------------

\* #define BUFFER_SIZE
BUFFER_SIZE == 512

\* the byte '\0' inside a memory image
NUL == "\t"

\* s[i], 0-based; "" when i is outside s
At(s, i) == IF i >= 0 /\ i < Len(s) THEN SubSeq(s, i + 1, i + 1) ELSE ""

\* s + i: the rest of the string from offset i
From(s, i) == SubSeq(s, i + 1, Len(s))

\* the first n characters of s
Take(s, n) == SubSeq(s, 1, n)

SetMin(S) == CHOOSE x \in S : \A y \in S : x <= y

\* strstr(h, n): offset of the first occurrence of n in h, -1 for NULL
strstr(h, n) ==
  LET hits == {i \in 0..(Len(h) - Len(n)) : SubSeq(h, i + 1, i + Len(n)) = n}
  IN IF hits = {} THEN -1 ELSE SetMin(hits)

\* offset of the first character c of s at or after offset i, Len(s) if none
IndexFrom(s, c, i) ==
  LET hits == {j \in i..(Len(s) - 1) : At(s, j) = c}
  IN IF hits = {} THEN Len(s) ELSE SetMin(hits)

\* the C string that starts at offset off of a memory image: up to the first
\* terminator
CStr(mem, off) == SubSeq(mem, off + 1, IndexFrom(mem, NUL, off))

\* mem with the byte at offset i replaced by c
Poke(mem, i, c) == Take(mem, i) \o c \o From(mem, i + 1)

\* mem after `bytes` were stored at its start; the bytes beyond stay
Overlay(mem, bytes) == bytes \o From(mem, Len(bytes))

Digits == {"0", "1", "2", "3", "4", "5", "6", "7", "8", "9"}

DigitVal(c) == CHOOSE d \in 0..9 : ToString(d) = c

\* the number of leading decimal digits of s
RECURSIVE DigitCount(_, _)
DigitCount(s, i) == IF At(s, i) \in Digits THEN DigitCount(s, i + 1) ELSE i

\* the value of the n leading decimal digits of s
RECURSIVE DecValue(_, _)
DecValue(s, n) ==
  IF n = 0 THEN 0 ELSE 10 * DecValue(s, n - 1) + DigitVal(At(s, n - 1))

\* the first offset at or after i that holds no blank
RECURSIVE SkipBlanks(_, _)
SkipBlanks(s, i) == IF At(s, i) \in {" ", "\n"} THEN SkipBlanks(s, i + 1) ELSE i

\* ------------------------------------------------------------------------
\* Pure functions of the source
\* ------------------------------------------------------------------------

\* a null pointer where the source holds a char* or a struct pointer;
\* a non-null pointer to x is <<x>>
NULL == <<>>

\* sscanf(buffer, "%d execve(\"%[^\n]\n", &pid, args): the number of
\* conversions stored, the pid stored by %d and the text stored in args
sscanf_execve(line) ==
  LET b == SkipBlanks(line, 0)
      d == DigitCount(line, b)
      j == SkipBlanks(line, d)
      k == j + Len("execve(\"")
      e == IndexFrom(line, "\n", k)
  IN IF d = b THEN [n |-> 0, pid |-> -1, args |-> ""]
     ELSE IF SubSeq(line, j + 1, k) = "execve(\"" /\ e > k
          THEN [n |-> 2, pid |-> DecValue(From(line, b), d - b),
                args |-> SubSeq(line, k + 1, e)]
          ELSE [n |-> 1, pid |-> DecValue(From(line, b), d - b), args |-> ""]

\* the name of the executed command when the directories are not cut off
cmd_name_of_whole_path(args) == SubSeq(args, 1, IndexFrom(args, "\"", 0))

\* the name of the executed command: from the character after the last '/'
\* of the executable path to its closing quote
cmd_name_of(args) ==
  LET command_end_index == IndexFrom(args, "\"", 0)
      slashes == {i \in 0..(command_end_index - 1) : At(args, i) = "/"}
      command_start_index ==
        IF slashes = {} THEN 0
        ELSE 1 + (CHOOSE i \in slashes : \A j \in slashes : j <= i)
  IN SubSeq(args, command_start_index + 1, command_end_index)

is_compiler_cmd(cmd) == cmd = "gcc" \/ cmd = "g++"

is_desired_cmd(cmd) == cmd = "gcc" \/ cmd = "g++" \/ cmd = "as" \/ cmd = "ld"

\* the loop of extract_sources that walks fname back to the opening quote:
\* off is fname - line, i the loop counter; it stops when i reaches the
\* current offset, so it walks back over at most half of the offset
RECURSIVE walk_back(_, _, _)
walk_back(line, off, i) ==
  IF i < off /\ At(line, off - 1) # "\"" THEN walk_back(line, off - 1, i + 1)
  ELSE off

\* one suffix of extract_sources: the token ending at the first occurrence
\* of suffix, NULL when the suffix does not occur
extract_suffix(line, suffix) ==
  LET at == strstr(line, suffix)
  IN IF at = -1 THEN NULL
     ELSE <<SubSeq(line, walk_back(line, at, 0) + 1, at + Len(suffix))>>

\* extract_sources: the suffixes are tried in the order .cc, .c, .o, .s; the
\* function ends without a return when none occurs, and the -O0 build of the
\* Makefile then returns the last strstr result, NULL
extract_sources(line) ==
  IF extract_suffix(line, ".cc") # NULL THEN extract_suffix(line, ".cc")
  ELSE IF extract_suffix(line, ".c") # NULL THEN extract_suffix(line, ".c")
  ELSE IF extract_suffix(line, ".o") # NULL THEN extract_suffix(line, ".o")
  ELSE extract_suffix(line, ".s")

\* the offsets of '[' and ']' found by the bracket loop of main: the first
\* ']' ends the loop, the first '[' before it is kept; -1 when absent
rbracket_of(args) ==
  LET r == IndexFrom(args, "]", 0) IN IF r = Len(args) THEN -1 ELSE r

lbracket_of(args) ==
  LET stop == IF rbracket_of(args) = -1 THEN Len(args) ELSE rbracket_of(args)
      l == IndexFrom(args, "[", 0)
  IN IF l < stop THEN l ELSE -1

\* the characters the copy loop keeps: everything but quotes and commas
RECURSIVE strip(_)
strip(s) ==
  IF s = "" THEN ""
  ELSE (IF Head(s) \in {"\"", ","} THEN "" ELSE Head(s)) \o strip(Tail(s))

\* the command written to the command log and stored in the target: the
\* argument list between the brackets without quotes and commas
cmd_of(args) == strip(SubSeq(args, lbracket_of(args) + 2, rbracket_of(args)))

\* cmd_buffer when parse_target_from_cmd reads it: the stripped command at
\* the front, then what the raw copy cmd_buffer[i] = args[i] left behind it,
\* up to the terminator stored at the offset of ']'.  Bytes between the two
\* that neither copy wrote keep what the stack held (stale).
cmd_buffer_at_parse(args, stale) ==
  LET cmd_index == Len(cmd_of(args))
      l == lbracket_of(args)
      r == rbracket_of(args)
      gap == IF cmd_index <= l THEN l + 1 - cmd_index ELSE 0
      fill == [i \in 1..gap |-> stale]
      RECURSIVE Cat(_)
      Cat(q) == IF q = <<>> THEN "" ELSE Head(q) \o Cat(Tail(q))
      raw == IF cmd_index > l THEN cmd_index ELSE l + 1
  IN cmd_of(args) \o Cat(fill) \o SubSeq(args, raw + 1, r)

\* parse_target_from_cmd: NULL models the strdup(NULL) taken when "-o " does
\* not occur; the name runs from after "-o " to the next blank, and the scan
\* has no test for the end of the string
parse_target_from_cmd(cmd) ==
  LET target == strstr(cmd, "-o ")
      index == IndexFrom(cmd, " ", target + 3)
  IN IF target = -1 THEN [fault |-> "null", name |-> ""]
     ELSE IF index = Len(cmd)
          THEN [fault |-> "overrun", name |-> From(cmd, target + 3)]
          ELSE [fault |-> "none", name |-> SubSeq(cmd, target + 4, index)]

\* TARGET_add_dep without the search for the path
TARGET_add_dep_always(deps, new_dep) == Append(deps, new_dep)

\* TARGET_add_dep when a path that is found is moved to the tail
TARGET_add_dep_to_tail(deps, new_dep) ==
  Append(SelectSeq(deps, LAMBDA d : d # new_dep), new_dep)

\* TARGET_add_dep on the dependency list of a target
TARGET_add_dep(deps, new_dep) ==
  IF \E i \in 1..Len(deps) : deps[i] = new_dep THEN deps
  ELSE Append(deps, new_dep)

\* LIST_find_pid(fps_list, pid) != NULL
LIST_find_pid(list, pid) == \E i \in 1..Len(list) : list[i] = pid

\* LIST_add: a pid already in the list only has its path replaced
LIST_add(list, pid) == IF LIST_find_pid(list, pid) THEN list ELSE Append(list, pid)

\* the openat test of main that keeps locale, system and temporary files
\* out: text is the line from "openat(" on
is_ignored_open(text) ==
  \/ strstr(text, "locale") # -1
  \/ strstr(text, "/etc/") # -1
  \/ strstr(text, "/types/") # -1
  \/ strstr(text, ".cache") # -1
  \/ strstr(text, "/bits/") # -1
  \/ strstr(text, "/tmp/") # -1

\* the openat test when only the pid decides
is_wanted_open_pid_only(text, list, pid) ==
  strstr(text, "ENOENT") = -1 /\ LIST_find_pid(list, pid)

\* the openat test when only the header suffix decides
is_wanted_open_header_only(text, list, pid) ==
  strstr(text, "ENOENT") = -1 /\ strstr(text, ".h") # -1

\* the openat test without its ENOENT part
is_wanted_open_any_result(text, list, pid) ==
  LIST_find_pid(list, pid) \/ strstr(text, ".h") # -1

\* the test of main that lets an openat through: no ENOENT, and either a
\* pid of the list or ".h" in the text
is_wanted_open(text, list, pid) ==
  /\ strstr(text, "ENOENT") = -1
  /\ (LIST_find_pid(list, pid) \/ strstr(text, ".h") # -1)

\* the path the openat branch passes to TARGET_add_dep: 18 characters are
\* cut off for `openat(AT_FDCWD, "` and the path ends at the next quote
open_path(text) == SubSeq(text, 19, IndexFrom(text, "\"", 18))

\* the command line emit_target_to_makefile writes: -I<sandbox> goes in
\* four characters after the first "gcc", or else the first "g++"
makefile_cmd(cmd, sb_pwd) ==
  LET g == strstr(cmd, "gcc")
      gcc_index == IF g # -1 THEN g ELSE strstr(cmd, "g++")
  IN IF gcc_index # -1
     THEN Take(cmd, gcc_index + 4) \o "-I" \o sb_pwd \o " " \o From(cmd, gcc_index + 4)
     ELSE cmd

\* ------------------------------------------------------------------------
\* The trace file t.out
\* ------------------------------------------------------------------------

\* a system call as the tracer saw it: the claims speak about these fields,
\* the program reads only the text of the line
Call(kind, pid, exe, argv, path, ok) ==
  [kind |-> kind, pid |-> pid, exe |-> exe, argv |-> argv, path |-> path, ok |-> ok]

Enoent == "-1 ENOENT (No such file or directory)"

RECURSIVE QuotedArgs(_)
QuotedArgs(argv) ==
  IF argv = <<>> THEN ""
  ELSE "\"" \o Head(argv) \o "\""
       \o (IF Len(argv) > 1 THEN ", " ELSE "") \o QuotedArgs(Tail(argv))

\* the line strace -f -o writes for a call, without its newline
Text(e) ==
  CASE e.kind = "execve" ->
         ToString(e.pid) \o " execve(\"" \o e.exe \o "\", [" \o QuotedArgs(e.argv)
         \o "], 0x7ffd /* 9 vars */) = " \o (IF e.ok THEN "0" ELSE Enoent)
    [] e.kind = "openat" ->
         ToString(e.pid) \o " openat(AT_FDCWD, \"" \o e.path \o "\", O_RDONLY) = "
         \o (IF e.ok THEN "3" ELSE Enoent)
    [] e.kind = "chdir" ->
         ToString(e.pid) \o " chdir(\"" \o e.path \o "\") = 0"
    [] e.kind = "vfork_begin" ->
         ToString(e.pid) \o " vfork( <unfinished ...>"
    [] e.kind = "vfork_resumed" ->
         ToString(e.pid) \o " <... vfork resumed>) = " \o ToString(e.pid + 1)
    [] OTHER ->
         ToString(e.pid) \o " close(3) = 0"

Gcc(pid, argv, ok) == Call("execve", pid, "/usr/bin/gcc", argv, "", ok)
Open(pid, path, ok) == Call("openat", pid, "", <<>>, path, ok)

\* the lines a trace is made of
TraceLines ==
  { Gcc(1, <<"gcc", "-o", "prog", "main.c">>, TRUE),
    Gcc(1, <<"gcc", "main.c", "-o", "prog">>, TRUE),
    Gcc(2, <<"gcc", "-o", "tool", "/tmp/gen.c">>, TRUE),
    Gcc(2, <<"gcc", "-c", "main.c">>, TRUE),
    Gcc(3, <<"gcc", "-o", "prog", "main.c">>, FALSE),
    Call("execve", 2, "/usr/bin/g++", <<"g++", "-o", "prog", "gcc_main.c">>, "", TRUE),
    Call("execve", 3, "/usr/bin/make", <<"make">>, "", TRUE),
    Open(1, "util.h", TRUE),
    Open(1, "util.h", FALSE),
    Open(1, "main.c", TRUE),
    Open(1, "prog", TRUE),
    Open(1, "/usr/include/bits/wordsize.h", TRUE),
    Open(3, "cfg.h.in", TRUE),
    Call("chdir", 1, "", <<>>, "/src", TRUE),
    Call("vfork_begin", 2, "", <<>>, "", TRUE),
    Call("vfork_resumed", 2, "", <<>>, "", TRUE) }

\* the number of lines of the longest trace
MaxLines == 4

\* the directory the program is started in
InitialCwd == "/w"

\* what an uninitialised character array may hold as a string
Indeterminate == {"", "?"}

\* what an uninitialised byte may hold
StaleBytes == {NUL, "?"}

\* ------------------------------------------------------------------------
\* State
\* ------------------------------------------------------------------------

VARIABLES
  pc,                \* "start" before the output files are opened, "run" in
                     \* the read loop, "done" after main returned, "exited"
                     \* after exit(1), "crashed" after a fault stopped the
                     \* process
  fopen_ok,          \* which of the fopen calls for the output files succeed
  hist,              \* the calls whose lines were read so far
  buffer,            \* memory image of `char buffer[BUFFER_SIZE]`
  pid,               \* `int pid`
  vfork,             \* `bool vfork`
  saved_pid,         \* `int saved_pid`
  fps_list,          \* the pids of `list *fps_list`, in list order
  pwd,               \* `char *pwd`: heap text, or an offset into buffer
  cur_target,        \* `target *cur_target`: NULL or <<target>>
  heap_recycled,     \* TRUE once freed chunks may be handed out by malloc
  cmds_file,         \* lines of commands_cache.txt
  sources_file,      \* lines of source_files.txt
  dep_file,          \* the targets written to dependency.txt, in order
  disk,              \* the files the program finds: src, the content of
                     \* every file it can open for reading, and locked, the
                     \* sandbox paths that can be neither created nor written
  sandbox_copies,    \* the sandbox directory: files, the content of every
                     \* copy written, and dirs, the directories made, in order
  sandbox_mkfile,    \* the texts written to sandbox/Makefile, in order
  make_targets_list  \* what was strcat'ed to `char make_targets_list[]` so far

vars ==
  <<pc, fopen_ok, disk, hist, buffer, pid, vfork, saved_pid, fps_list, pwd,
    cur_target, heap_recycled, cmds_file, sources_file, dep_file,
    sandbox_copies, sandbox_mkfile, make_targets_list>>

files == <<cmds_file, sources_file, dep_file, sandbox_copies, sandbox_mkfile,
           make_targets_list>>

\* the string pwd points to, given the memory image of buffer
pwd_text(p, mem) == IF p.in_buffer THEN CStr(mem, p.at) ELSE p.text

sandbox_pwd == InitialCwd \o "/sandbox"

Target(name, cmd, deps) == [target_name |-> name, cmd |-> cmd, deps |-> deps]

\* main before the read loop.  fps_list is malloc'ed and never initialised;
\* it is the first chunk cut from a heap nothing was freed into, which the
\* kernel hands out zeroed.  make_targets_list is an uninitialised stack array:
\* the variable holds what was appended behind its indeterminate content.
AllOpened == [cmds |-> TRUE, sources |-> TRUE, dep |-> TRUE, mkfile |-> TRUE]

\* a build directory in which every file the trace names is present, and
\* nothing in the sandbox is locked
BuildFiles == {"main.c", "gcc_main.c", "util.h", "cfg.h.in", "prog", "/tmp/gen.c"}

BuildDisk == [src |-> [f \in BuildFiles |-> <<Len(f)>>], locked |-> {}]

EmptySandbox == [files |-> <<>>, dirs |-> <<>>]

Init ==
  /\ pc = "run"
  /\ fopen_ok = AllOpened
  /\ disk = BuildDisk
  /\ hist = <<>>
  /\ buffer = ""
  /\ pid = -1
  /\ vfork = FALSE
  /\ saved_pid = -1
  /\ fps_list = <<>>
  /\ pwd = [in_buffer |-> FALSE, at |-> 0, text |-> InitialCwd]
  /\ cur_target = NULL
  /\ heap_recycled = FALSE
  /\ cmds_file = <<>>
  /\ sources_file = <<>>
  /\ dep_file = <<>>
  /\ sandbox_copies = EmptySandbox
  /\ sandbox_mkfile = <<"\nall: all_make_targets\n">>
  /\ make_targets_list = ""

\* main from its first fopen of an output file on, for every outcome of the
\* four fopen calls
InitEnv ==
  /\ pc = "start"
  /\ fopen_ok \in [cmds : BOOLEAN, sources : BOOLEAN, dep : BOOLEAN, mkfile : BOOLEAN]
  /\ disk = BuildDisk
  /\ hist = <<>>
  /\ buffer = ""
  /\ pid = -1
  /\ vfork = FALSE
  /\ saved_pid = -1
  /\ fps_list = <<>>
  /\ pwd = [in_buffer |-> FALSE, at |-> 0, text |-> InitialCwd]
  /\ cur_target = NULL
  /\ heap_recycled = FALSE
  /\ cmds_file = <<>>
  /\ sources_file = <<>>
  /\ dep_file = <<>>
  /\ sandbox_copies = EmptySandbox
  /\ sandbox_mkfile = <<>>
  /\ make_targets_list = ""

\* the fopen calls and their tests: a NULL cmds_file or sources_file ends
\* the program with exit(1); a NULL dep_file or sandbox_mkfile is reported
\* on stderr and main goes on; the first rule is written to the Makefile
\* when it was opened
OpenFiles ==
  /\ pc = "start"
  /\ IF ~fopen_ok.cmds \/ ~fopen_ok.sources
     THEN /\ pc' = "exited"
          /\ UNCHANGED sandbox_mkfile
     ELSE /\ pc' = "run"
          /\ sandbox_mkfile' = (IF fopen_ok.mkfile
                                THEN <<"\nall: all_make_targets\n">> ELSE <<>>)
  /\ UNCHANGED <<fopen_ok, disk, hist, buffer, pid, vfork, saved_pid, fps_list,
                 pwd, cur_target, heap_recycled, cmds_file, sources_file,
                 dep_file, sandbox_copies, make_targets_list>>

\* ------------------------------------------------------------------------
\* The read loop
\* ------------------------------------------------------------------------

\* fgets stores the line, its newline and a terminator
Line(e) == Text(e) \o "\n"

fgets(mem, line) == Overlay(mem, line \o NUL)

\* the if of the loop without its ENOENT test
is_execve_line_any_result(line) == sscanf_execve(line).n = 2

\* the if of the loop: an execve line without ENOENT
is_execve_line(line) ==
  /\ sscanf_execve(line).n = 2
  /\ strstr(sscanf_execve(line).args, "ENOENT") = -1

is_chdir_line(line) == strstr(line, "chdir(") # -1

\* the text from "openat(" on, "" when the line has none
openat_text(line) ==
  IF strstr(line, "openat(") = -1 THEN "" ELSE From(line, strstr(line, "openat("))

is_vfork_begin(line) ==
  strstr(line, "vfork(") # -1 /\ strstr(line, "unfinished") # -1

is_vfork_resumed(line) == strstr(line, "vfork resumed") # -1

\* the names parse_target_from_cmd can return for an execve line, over what
\* the bytes it reads outside the written part of cmd_buffer may hold
parsed_targets(args) ==
  { LET t == parse_target_from_cmd(CStr(cmd_buffer_at_parse(args, stale), 0))
    IN IF t.fault = "overrun" THEN [t EXCEPT !.name = @ \o past] ELSE t
    : stale \in StaleBytes, past \in Indeterminate }

\* what main computes from the text of one line alone
Scanned(e) ==
  LET line == Line(e)
      s == sscanf_execve(line)
      text == openat_text(line)
  IN [ call |-> e,
       line |-> line,
       scanned |-> s.n,
       pid |-> s.pid,
       execve |-> is_execve_line(line),
       cmd_name |-> cmd_name_of(s.args),
       source |-> extract_sources(s.args),
       cmd |-> cmd_of(s.args),
       targets |-> IF is_execve_line(line) /\ is_compiler_cmd(cmd_name_of(s.args))
                   THEN parsed_targets(s.args) ELSE {},
       chdir |-> is_chdir_line(line),
       pwd_at |-> strstr(line, "chdir(") + 7,
       pwd_end |-> IndexFrom(line, "\"", strstr(line, "chdir(") + 7),
       openat |-> strstr(line, "openat(") # -1,
       open_text |-> text,
       open_ignored |-> is_ignored_open(text),
       open_path |-> open_path(text),
       open_end |-> IndexFrom(line, "\"", strstr(line, "openat(") + 18),
       vfork_begin |-> is_vfork_begin(line),
       vfork_resumed |-> is_vfork_resumed(line) ]

\* the lines of TraceLines as main sees them
Lines == {Scanned(e) : e \in TraceLines}

\* pid after the sscanf of the loop condition: %d stores it whenever the
\* line starts with a number, whatever follows
pid_after_scan(l, old) == IF l.scanned >= 1 THEN l.pid ELSE old

\* the openat branch is taken
is_openat_line(l, list, p) ==
  ~l.execve /\ ~l.chdir /\ l.openat /\ is_wanted_open(l.open_text, list, p)

\* the vfork tests are reached and one of them holds
is_fork_line(l, list, p) ==
  /\ ~l.execve /\ ~l.chdir /\ ~is_openat_line(l, list, p)
  /\ (l.vfork_begin \/ l.vfork_resumed)

\* what every branch does first: one more line is read
Read(l) ==
  /\ pc = "run"
  /\ Len(hist) < MaxLines
  /\ hist' = Append(hist, l.call)
  /\ UNCHANGED <<fopen_ok, disk>>

\* emit_target_to_makefile: the rule written for target t
makefile_rule(t) ==
  "\n" \o t.target_name \o ": " \o t.deps[1] \o "\n"
  \o "\t" \o makefile_cmd(t.cmd, sandbox_pwd) \o "\n"

\* the manifest when a record is put in front of the earlier ones
dep_file_after_in_front(tp) == IF tp = NULL THEN dep_file ELSE <<tp[1]>> \o dep_file

\* the manifest when every record shows the one target structure in use
dep_file_after_shared(tp) ==
  IF tp = NULL THEN dep_file ELSE [k \in 1..(Len(dep_file) + 1) |-> tp[1]]

\* the three emit calls and the strcat made for the target that is complete:
\* tp is cur_target, and nothing is written while it is NULL
dep_file_after(tp) == IF tp = NULL THEN dep_file ELSE Append(dep_file, tp[1])

\* dirname (libgen.h) of a path without trailing slashes
dirname(path) ==
  LET slashes == {i \in 0..(Len(path) - 1) : At(path, i) = "/"}
      last == CHOOSE i \in slashes : \A j \in slashes : j <= i
  IN IF slashes = {} THEN "."
     ELSE IF last = 0 THEN "/"
     ELSE Take(path, last)

\* the directories that exist before the first copy: main has made the
\* sandbox directory in the working directory
InitialDirs == {"/", InitialCwd, sandbox_pwd}

\* stat(path) succeeds and S_ISDIR holds, given the directories made so far
is_dir(path, dirs) ==
  path \in InitialDirs \/ \E i \in 1..Len(dirs) : dirs[i] = path

\* mkdir(path, 0777): the directory is made when its parent is a directory
\* and the path neither exists nor is locked; the result is not looked at
mkdir(path, dirs, locked) ==
  IF is_dir(dirname(path), dirs) /\ ~is_dir(path, dirs) /\ path \notin locked
  THEN Append(dirs, path) ELSE dirs

\* dep_mkdirs when the directory is made before its parent is looked at
RECURSIVE dep_mkdirs_child_first(_, _, _)
dep_mkdirs_child_first(dirpath, dirs, locked) ==
  LET dname == dirname(dirpath)
      made == mkdir(dirpath, dirs, locked)
  IN IF dname # "." /\ ~is_dir(dname, dirs)
     THEN dep_mkdirs_child_first(dname, made, locked)
     ELSE made

\* dep_mkdirs: the directories made so far after the call; the parent is
\* made first, by the recursive call, when stat does not find it
RECURSIVE dep_mkdirs(_, _, _)
dep_mkdirs(dirpath, dirs, locked) ==
  LET dname == dirname(dirpath)
  IN IF dname # "." /\ ~is_dir(dname, dirs)
     THEN mkdir(dirpath, dep_mkdirs(dname, dirs, locked), locked)
     ELSE mkdir(dirpath, dirs, locked)

\* the copy loop stopped after its first fread
copy_loop_once(content, pos, written) ==
  written \o SubSeq(content, pos + 1,
                    pos + (IF Len(content) - pos < BUFFER_SIZE
                           THEN Len(content) - pos ELSE BUFFER_SIZE))

\* the do-while of TARGET_copy_deps: fread takes up to BUFFER_SIZE bytes at
\* the position pos of the source, fwrite appends them to the copy, and the
\* loop ends after the fread that returns 0
RECURSIVE copy_loop(_, _, _)
copy_loop(content, pos, written) ==
  LET bytes_read == IF Len(content) - pos < BUFFER_SIZE
                    THEN Len(content) - pos ELSE BUFFER_SIZE
      copied == written \o SubSeq(content, pos + 1, pos + bytes_read)
  IN IF bytes_read > 0 THEN copy_loop(content, pos + bytes_read, copied)
     ELSE copied

\* TARGET_copy_deps stopped at the first dependency it cannot copy
RECURSIVE TARGET_copy_deps_stopping(_, _, _, _)
TARGET_copy_deps_stopping(deps, sb_pwd, fs, sandbox) ==
  IF deps = <<>> THEN sandbox
  ELSE LET dep == Head(deps)
           new_path == sb_pwd \o (IF At(dep, 0) # "/" THEN "/" ELSE "") \o dep
           dirs == IF is_dir(dirname(new_path), sandbox.dirs) THEN sandbox.dirs
                   ELSE dep_mkdirs(dirname(new_path), sandbox.dirs, fs.locked)
       IN IF dep \notin DOMAIN fs.src THEN sandbox
          ELSE IF ~is_dir(dirname(new_path), dirs) \/ new_path \in fs.locked
          THEN [sandbox EXCEPT !.dirs = dirs]
          ELSE TARGET_copy_deps_stopping(
                 Tail(deps), sb_pwd, fs,
                 [files |-> (new_path :> copy_loop(fs.src[dep], 0, <<>>)) @@ sandbox.files,
                  dirs |-> dirs])

\* TARGET_copy_deps: the sandbox after the dependencies deps were gone
\* through in list order.  A dependency that fopen cannot read is skipped;
\* the copy goes to sb_pwd/dep, or to sb_pwd followed by dep when dep is
\* absolute; missing directories of the copy are made; a copy that fopen
\* cannot open for writing is skipped
RECURSIVE TARGET_copy_deps(_, _, _, _)
TARGET_copy_deps(deps, sb_pwd, fs, sandbox) ==
  IF deps = <<>> THEN sandbox
  ELSE LET dep == Head(deps)
           new_path == sb_pwd \o (IF At(dep, 0) # "/" THEN "/" ELSE "") \o dep
           dirs == IF is_dir(dirname(new_path), sandbox.dirs) THEN sandbox.dirs
                   ELSE dep_mkdirs(dirname(new_path), sandbox.dirs, fs.locked)
       IN IF dep \notin DOMAIN fs.src
          THEN TARGET_copy_deps(Tail(deps), sb_pwd, fs, sandbox)
          ELSE IF ~is_dir(dirname(new_path), dirs) \/ new_path \in fs.locked
          THEN TARGET_copy_deps(Tail(deps), sb_pwd, fs, [sandbox EXCEPT !.dirs = dirs])
          ELSE TARGET_copy_deps(
                 Tail(deps), sb_pwd, fs,
                 [files |-> (new_path :> copy_loop(fs.src[dep], 0, <<>>)) @@ sandbox.files,
                  dirs |-> dirs])

sandbox_copies_after(tp) ==
  IF tp = NULL THEN sandbox_copies
  ELSE TARGET_copy_deps(tp[1].deps, sandbox_pwd, disk, sandbox_copies)

sandbox_mkfile_after(tp) ==
  IF tp = NULL THEN sandbox_mkfile ELSE Append(sandbox_mkfile, makefile_rule(tp[1]))

make_targets_list_after(tp) ==
  IF tp = NULL THEN make_targets_list
  ELSE make_targets_list \o " " \o tp[1].target_name

\* emit_target_to_file reads tar->head->dep without a test and writes to
\* its FILE* without a test: a target without dependencies faults there, and
\* so does every target when dep_file is NULL
emit_faults(tp) == tp # NULL /\ (tp[1].deps = <<>> \/ ~fopen_ok.dep)

\* emit_target_to_makefile writes to its FILE* without a test: it faults
\* when sandbox_mkfile is NULL, after the manifest record was written and the
\* dependencies were copied
makefile_faults(tp) == tp # NULL /\ ~fopen_ok.mkfile

\* whether the head of a newly malloc'ed target reads as NULL.  main never
\* sets it: before anything was freed the chunk is fresh memory and head is
\* NULL; once TARGET_copy_deps has freed its buffers the chunk may be a
\* recycled one, and head is whatever that held.
new_head_is_null(recycled) == IF recycled THEN BOOLEAN ELSE {TRUE}

\* the gcc/g++ branch of an execve line: the complete target is emitted, the
\* command is logged and a new target is started with the source as its
\* first dependency
StartTarget(l) ==
  IF emit_faults(cur_target)
  THEN /\ pc' = "crashed"
       /\ UNCHANGED <<cur_target, heap_recycled, cmds_file, dep_file,
                      sandbox_copies, sandbox_mkfile, make_targets_list>>
  ELSE IF makefile_faults(cur_target)
  THEN /\ pc' = "crashed"
       /\ dep_file' = dep_file_after(cur_target)
       /\ sandbox_copies' = sandbox_copies_after(cur_target)
       /\ UNCHANGED <<cur_target, heap_recycled, cmds_file, sandbox_mkfile,
                      make_targets_list>>
  ELSE /\ dep_file' = dep_file_after(cur_target)
       /\ sandbox_copies' = sandbox_copies_after(cur_target)
       /\ sandbox_mkfile' = sandbox_mkfile_after(cur_target)
       /\ make_targets_list' = make_targets_list_after(cur_target)
       /\ heap_recycled' = (heap_recycled \/ cur_target # NULL)
       /\ cmds_file' = Append(cmds_file, l.cmd)
       /\ \E t \in l.targets,
             head_is_null \in new_head_is_null(heap_recycled \/ cur_target # NULL) :
            IF t.fault = "null"
            THEN /\ pc' = "crashed"
                 /\ cur_target' = <<Target("", "", <<>>)>>
            ELSE IF ~head_is_null \/ l.source = NULL
            THEN /\ pc' = "crashed"
                 /\ cur_target' = <<Target(t.name, l.cmd, <<>>)>>
            ELSE /\ pc' = "run"
                 /\ cur_target' =
                      <<Target(t.name, l.cmd, TARGET_add_dep(<<>>, l.source[1]))>>

\* a line that is a successful execve
ExecveLine(l) ==
  LET p == IF vfork THEN saved_pid ELSE l.pid
  IN /\ Read(l)
     /\ l.execve
     /\ buffer' = fgets(buffer, l.line)
     /\ pid' = p
     /\ saved_pid' = p
     /\ UNCHANGED <<vfork, pwd>>
     /\ IF ~is_desired_cmd(l.cmd_name)
        THEN UNCHANGED <<pc, fps_list, cur_target, heap_recycled, files>>
        ELSE /\ fps_list' = (IF is_compiler_cmd(l.cmd_name)
                             THEN LIST_add(fps_list, p) ELSE fps_list)
             /\ sources_file' =
                  (IF l.source = NULL THEN sources_file
                   ELSE Append(sources_file,
                               pwd_text(pwd, fgets(buffer, l.line)) \o "/" \o l.source[1]))
             /\ IF is_compiler_cmd(l.cmd_name)
                THEN StartTarget(l)
                ELSE UNCHANGED <<pc, cur_target, heap_recycled, cmds_file, dep_file,
                                 sandbox_copies, sandbox_mkfile, make_targets_list>>

\* a line with a chdir call: pwd is made to point into buffer, behind
\* `chdir("`, and the closing quote is overwritten by a terminator
ChdirLine(l) ==
  /\ Read(l)
  /\ ~l.execve
  /\ l.chdir
  /\ pid' = pid_after_scan(l, pid)
  /\ pwd' = [in_buffer |-> TRUE, at |-> l.pwd_at, text |-> ""]
  /\ buffer' = (IF l.pwd_end < Len(l.line)
                THEN Poke(fgets(buffer, l.line), l.pwd_end, NUL)
                ELSE fgets(buffer, l.line))
  /\ UNCHANGED <<pc, vfork, saved_pid, fps_list, cur_target, heap_recycled, files>>

\* a line with an openat call that passes the ENOENT and pid-or-header test:
\* unless the text names an ignored place, the path is cut out of buffer and
\* added to cur_target, which is not tested for NULL
OpenatLine(l) ==
  /\ Read(l)
  /\ is_openat_line(l, fps_list, pid_after_scan(l, pid))
  /\ pid' = pid_after_scan(l, pid)
  /\ UNCHANGED <<vfork, saved_pid, fps_list, pwd, heap_recycled, files>>
  /\ IF l.open_ignored
     THEN /\ buffer' = fgets(buffer, l.line)
          /\ UNCHANGED <<pc, cur_target>>
     ELSE /\ buffer' = (IF l.open_end < Len(l.line)
                        THEN Poke(fgets(buffer, l.line), l.open_end, NUL)
                        ELSE fgets(buffer, l.line))
          /\ IF cur_target = NULL
             THEN /\ pc' = "crashed"
                  /\ UNCHANGED cur_target
             ELSE /\ pc' = "run"
                  /\ cur_target' =
                       <<[cur_target[1] EXCEPT
                            !.deps = TARGET_add_dep(@, l.open_path)]>>

\* a line with a vfork marker
ForkLine(l) ==
  /\ Read(l)
  /\ is_fork_line(l, fps_list, pid_after_scan(l, pid))
  /\ pid' = pid_after_scan(l, pid)
  /\ buffer' = fgets(buffer, l.line)
  /\ vfork' = l.vfork_begin
  /\ UNCHANGED <<pc, saved_pid, fps_list, pwd, cur_target, heap_recycled, files>>

\* any other line: only buffer and pid change
OtherLine(l) ==
  /\ Read(l)
  /\ ~l.execve
  /\ ~l.chdir
  /\ ~is_openat_line(l, fps_list, pid_after_scan(l, pid))
  /\ ~is_fork_line(l, fps_list, pid_after_scan(l, pid))
  /\ pid' = pid_after_scan(l, pid)
  /\ buffer' = fgets(buffer, l.line)
  /\ UNCHANGED <<pc, vfork, saved_pid, fps_list, pwd, cur_target, heap_recycled,
                 files>>

\* end of t.out: the last target is emitted and the umbrella rule written,
\* which prints make_targets_list from its indeterminate first bytes on
EndOfFile ==
  /\ pc = "run"
  /\ IF emit_faults(cur_target)
     THEN /\ pc' = "crashed"
          /\ UNCHANGED files
     ELSE IF ~fopen_ok.mkfile
     THEN /\ pc' = "crashed"
          /\ dep_file' = dep_file_after(cur_target)
          /\ sandbox_copies' = sandbox_copies_after(cur_target)
          /\ UNCHANGED <<cmds_file, sources_file, sandbox_mkfile, make_targets_list>>
     ELSE /\ pc' = "done"
          /\ dep_file' = dep_file_after(cur_target)
          /\ sandbox_copies' = sandbox_copies_after(cur_target)
          /\ make_targets_list' = make_targets_list_after(cur_target)
          /\ \E garbage \in Indeterminate :
               sandbox_mkfile' =
                 Append(sandbox_mkfile_after(cur_target),
                        "\nall_make_targets:" \o garbage
                        \o make_targets_list_after(cur_target))
          /\ UNCHANGED <<cmds_file, sources_file>>
  /\ UNCHANGED <<fopen_ok, disk, hist, buffer, pid, vfork, saved_pid, fps_list,
                 pwd, cur_target, heap_recycled>>

Next ==
  \/ \E l \in Lines : ExecveLine(l)
  \/ \E l \in Lines : ChdirLine(l)
  \/ \E l \in Lines : OpenatLine(l)
  \/ \E l \in Lines : ForkLine(l)
  \/ \E l \in Lines : OtherLine(l)
  \/ EndOfFile

Spec == Init /\ [][Next]_vars

\* main with the fopen calls of the output files, which can fail
NextEnv == OpenFiles \/ Next

SpecEnv == InitEnv /\ [][NextEnv]_vars

\* TARGET_copy_deps on its own, for the files it can meet: a target with
\* four dependencies, each of which is missing or has one of the lengths
\* around the size of the read buffer, and a sandbox in which one path may
\* be locked
CopyList == <<"main.c", "inc/deep/util.h", "/tmp/gen.c", "cfg.h.in">>

FileLengths == {0, 3, BUFFER_SIZE, BUFFER_SIZE + BUFFER_SIZE + 1}

Content(n) == [i \in 1..n |-> i % 251]

\* a length for every dependency, -1 for a file that is not there
CopyDisks ==
  { [src |-> [f \in {g \in DOMAIN len : len[g] >= 0} |-> Content(len[f])],
     locked |-> locked] :
      len \in [{CopyList[i] : i \in 1..Len(CopyList)} -> FileLengths \cup {-1}],
      locked \in {{}, {sandbox_pwd \o "/main.c"}, {sandbox_pwd \o "/inc"},
                  {sandbox_pwd \o "/tmp/gen.c"}} }

InitCopy ==
  /\ pc = "copy"
  /\ fopen_ok = AllOpened
  /\ disk \in CopyDisks
  /\ hist = <<>>
  /\ buffer = ""
  /\ pid = -1
  /\ vfork = FALSE
  /\ saved_pid = -1
  /\ fps_list = <<>>
  /\ pwd = [in_buffer |-> FALSE, at |-> 0, text |-> InitialCwd]
  /\ cur_target = <<Target("prog", "gcc -o prog main.c", CopyList)>>
  /\ heap_recycled = FALSE
  /\ cmds_file = <<>>
  /\ sources_file = <<>>
  /\ dep_file = <<>>
  /\ sandbox_copies = EmptySandbox
  /\ sandbox_mkfile = <<"\nall: all_make_targets\n">>
  /\ make_targets_list = ""

\* one call TARGET_copy_deps(cur_target, sandbox_pwd)
CopyDeps ==
  /\ pc = "copy"
  /\ pc' = "copied"
  /\ sandbox_copies' =
       TARGET_copy_deps(cur_target[1].deps, sandbox_pwd, disk, sandbox_copies)
  /\ UNCHANGED <<fopen_ok, disk, hist, buffer, pid, vfork, saved_pid, fps_list,
                 pwd, cur_target, heap_recycled, cmds_file, sources_file,
                 dep_file, sandbox_mkfile, make_targets_list>>

NextCopy == CopyDeps

SpecCopy == InitCopy /\ [][NextCopy]_vars

\* the execve branch of the loop on its own, for the executables and the
\* argument lists it can meet: a compiler with and without a directory in
\* front, executables whose path only holds the name of a compiler somewhere,
\* the assembler and the linker, sources of every suffix, a source whose
\* name is longer than the text in front of it, a compiler command that
\* names no file of the four suffixes, and the fork markers
ExecCalls ==
  { Call("execve", 1, "/usr/bin/gcc", <<"gcc", "-o", "prog", "main.c">>, "", TRUE),
    Call("execve", 2, "gcc", <<"gcc", "-o", "tool", "util.o", "tool.c">>, "", TRUE),
    Call("execve", 3, "/usr/bin/g++", <<"g++", "-o", "app", "a.s", "b.o", "c.c", "d.cc">>, "", TRUE),
    Call("execve", 2, "/opt/gcc/bin/cc", <<"cc", "-o", "prog", "main.c">>, "", TRUE),
    Call("execve", 3, "/usr/bin/x86_64-linux-gnu-gcc",
         <<"x86_64-linux-gnu-gcc", "-o", "prog", "b.o", "main.c">>, "", TRUE),
    Call("execve", 2, "/usr/bin/as", <<"as", "-o", "main.o", "main.s">>, "", TRUE),
    Call("execve", 3, "/usr/bin/ld", <<"ld", "-o", "prog", "crt.s", "main.o">>, "", TRUE),
    Call("execve", 1, "/usr/bin/as",
         <<"as", "src/frontend/parser/grammar_tables.s">>, "", TRUE),
    Call("execve", 2, "/usr/bin/g++", <<"g++", "-o", "prog", "main.C">>, "", TRUE),
    Call("vfork_begin", 1, "", <<>>, "", TRUE),
    Call("vfork_resumed", 1, "", <<>>, "", TRUE) }

ExecLines == {Scanned(e) : e \in ExecCalls}

NextExec ==
  \/ \E l \in ExecLines : ExecveLine(l)
  \/ \E l \in ExecLines : ForkLine(l)
  \/ EndOfFile

SpecExec == Init /\ [][NextExec]_vars

\* the fork markers of two processes that fork at the same time, with a
\* compiler execve before them and one by a child
ForkCalls ==
  { Gcc(1, <<"gcc", "-o", "prog", "main.c">>, TRUE),
    Gcc(4, <<"gcc", "-o", "tool", "tool.c">>, TRUE),
    Call("vfork_begin", 2, "", <<>>, "", TRUE),
    Call("vfork_begin", 3, "", <<>>, "", TRUE),
    Call("vfork_resumed", 2, "", <<>>, "", TRUE),
    Call("vfork_resumed", 3, "", <<>>, "", TRUE) }

ForkLines == {Scanned(e) : e \in ForkCalls}

NextFork ==
  \/ \E l \in ForkLines : ExecveLine(l)
  \/ \E l \in ForkLines : ForkLine(l)
  \/ EndOfFile

SpecFork == Init /\ [][NextFork]_vars

\* TARGET_copy_deps for dependencies in directories: a target with three
\* of five files, in any order, that lie up to three directories deep, two
\* of them in directories another one needs too, and a sandbox in which one
\* directory may be impossible to make
DirDeps == {"a/b/c/x.h", "a/y.h", "a/b/z.h", "/usr/include/q.h", "w.h"}

DirLists ==
  {t \in DirDeps \X DirDeps \X DirDeps : t[1] # t[2] /\ t[1] # t[3] /\ t[2] # t[3]}

DirDisks ==
  { [src |-> [f \in DirDeps |-> Content(3)], locked |-> locked] :
      locked \in {{}, {sandbox_pwd \o "/a/b"}} }

InitDirs ==
  /\ pc = "copy"
  /\ fopen_ok = AllOpened
  /\ disk \in DirDisks
  /\ hist = <<>>
  /\ buffer = ""
  /\ pid = -1
  /\ vfork = FALSE
  /\ saved_pid = -1
  /\ fps_list = <<>>
  /\ pwd = [in_buffer |-> FALSE, at |-> 0, text |-> InitialCwd]
  /\ \E deps \in DirLists : cur_target = <<Target("prog", "gcc -o prog main.c", deps)>>
  /\ heap_recycled = FALSE
  /\ cmds_file = <<>>
  /\ sources_file = <<>>
  /\ dep_file = <<>>
  /\ sandbox_copies = EmptySandbox
  /\ sandbox_mkfile = <<"\nall: all_make_targets\n">>
  /\ make_targets_list = ""

\* the return of the call
CopyReturns == pc = "copy" /\ pc' = "copied"

\* the call is made by the one thread of the program and waits for nothing:
\* it is not held up for ever before it returns
SpecDirs == InitDirs /\ [][NextCopy]_vars /\ WF_pc(CopyReturns)

\* ------------------------------------------------------------------------
\* What the properties speak about
\* ------------------------------------------------------------------------

EndsWith(s, suffix) ==
  Len(s) >= Len(suffix) /\ SubSeq(s, Len(s) - Len(suffix) + 1, Len(s)) = suffix

Contains(s, part) == \E i \in 0..(Len(s) - Len(part)) : SubSeq(s, i + 1, i + Len(part)) = part

\* the directory fragments that mark system, locale, cache and temporary files
DenyFragments == {"locale", "/etc/", "/types/", ".cache", "/bits/", "/tmp/"}

Denylisted(path) == \E f \in DenyFragments : Contains(path, f)

IsHeader(path) == EndsWith(path, ".h")

\* a successful execve of a compiler front end
CompilerExec(e) ==
  e.kind = "execve" /\ e.ok /\ (EndsWith(e.exe, "/gcc") \/ EndsWith(e.exe, "/g++"))

\* a successful openat
GoodOpen(e) == e.kind = "openat" /\ e.ok

Last(h) == h[Len(h)]

\* a step of the read loop: exactly one more line was read
ReadsLine == Len(hist') = Len(hist) + 1

\* the number of successful compiler execve lines among the first n of h
RECURSIVE CompilerExecs(_, _)
CompilerExecs(h, n) ==
  IF n = 0 THEN 0
  ELSE CompilerExecs(h, n - 1) + (IF CompilerExec(h[n]) THEN 1 ELSE 0)

\* every target there is, in the order of creation: the finalized ones and
\* the current one (which the end of the file finalizes without clearing it)
AllTargets ==
  IF cur_target = NULL \/ pc = "done" THEN dep_file
  ELSE Append(dep_file, cur_target[1])

DepsOf(t) == {t.deps[i] : i \in 1..Len(t.deps)}

\* the pid whose fork-begin marker is outstanding after the lines h: the
\* last marker line is a begin; 0 when none is
RECURSIVE ForkOutstanding(_)
ForkOutstanding(h) ==
  IF h = <<>> THEN 0
  ELSE IF Last(h).kind = "vfork_begin" THEN Last(h).pid
  ELSE IF Last(h).kind = "vfork_resumed" THEN 0
  ELSE ForkOutstanding(SubSeq(h, 1, Len(h) - 1))

\* ------------------------------------------------------------------------
\* Properties
\* ------------------------------------------------------------------------

\* the name that follows -o in the argument list of e, and the source named
\* in it
OutputName(e) == e.argv[(CHOOSE i \in 1..(Len(e.argv) - 1) : e.argv[i] = "-o") + 1]

SourceName(e) == e.argv[CHOOSE i \in 2..Len(e.argv) : EndsWith(e.argv[i], ".c")]

\* a compiler invocation with `-o N` and a source S
ScenarioExec(e) ==
  /\ CompilerExec(e)
  /\ \E i \in 1..(Len(e.argv) - 1) : e.argv[i] = "-o"
  /\ \E i \in 2..Len(e.argv) : EndsWith(e.argv[i], ".c")

\* the first two lines of the scenario: the compiler execve of pid p, then a
\* successful openat by p of a header outside the denylist
ScenarioStart(h) ==
  /\ Len(h) >= 2
  /\ ScenarioExec(h[1])
  /\ GoodOpen(h[2]) /\ h[2].pid = h[1].pid
  /\ IsHeader(h[2].path) /\ ~Denylisted(h[2].path)

\* C1: in a trace that starts with a compiler execve with `-o N` and source
\* S by pid p, a successful openat by p of a header H outside the denylist
\* and a second successful compiler execve, the first target written to the
\* manifest has name N and the dependencies <<S, H>>; nothing is written to
\* the manifest while only the first two lines are read.
C1_ScenarioFirstTarget ==
  /\ (ScenarioStart(hist) /\ Len(hist) = 2 /\ pc = "run") => dep_file = <<>>
  /\ (ScenarioStart(hist) /\ Len(hist) >= 3 /\ CompilerExec(hist[3])) =>
       /\ dep_file # <<>>
       /\ dep_file[1].target_name = OutputName(hist[1])
       /\ dep_file[1].deps = <<SourceName(hist[1]), hist[2].path>>

\* C2: no dependency list of any target, current or finalized, holds the
\* same string twice.
C2_NoDuplicateDeps ==
  \A k \in 1..Len(AllTargets) :
    \A i, j \in 1..Len(AllTargets[k].deps) :
      AllTargets[k].deps[i] = AllTargets[k].deps[j] => i = j

\* the source of the current target was opened again by the compiler, and a
\* header was opened twice: both are in the list once
C2_Witness ==
  /\ Len(hist) = 4 /\ pc = "run"
  /\ ScenarioExec(hist[1])
  /\ GoodOpen(hist[2]) /\ hist[2].path = SourceName(hist[1])
  /\ GoodOpen(hist[3]) /\ hist[4] = hist[3] /\ IsHeader(hist[3].path)
  /\ cur_target # NULL
  /\ cur_target[1].deps = <<SourceName(hist[1]), hist[3].path>>

\* C3: no dependency list of any target holds a path with a denylisted
\* fragment, whether it came from an openat or as the source of an execve.
C3_NoDenylistedDep ==
  \A k \in 1..Len(AllTargets) : \A d \in DepsOf(AllTargets[k]) : ~Denylisted(d)

\* the pid is in the registry of compiler processes
Tracked(list, p) == \E i \in 1..Len(list) : list[i] = p

\* C4: a successful openat reported by a pid that is not in the registry,
\* with no fork-begin outstanding, of a path that does not end in `.h`,
\* leaves the dependency list of the current target unchanged.
C4_UntrackedOpenOnlyHeaders ==
  [][ ( /\ ReadsLine
        /\ GoodOpen(Last(hist'))
        /\ ForkOutstanding(hist) = 0
        /\ ~Tracked(fps_list, Last(hist').pid)
        /\ ~IsHeader(Last(hist').path) )
      => UNCHANGED cur_target ]_vars

\* C5: after a successful openat of a path outside the denylist reported by
\* a pid in the registry, the path is in the dependency list of the current
\* target, whatever its suffix.
C5_TrackedOpenRecorded ==
  [][ ( /\ ReadsLine
        /\ GoodOpen(Last(hist'))
        /\ Tracked(fps_list, Last(hist').pid)
        /\ ~Denylisted(Last(hist').path) )
      => /\ cur_target' # NULL
         /\ Last(hist').path \in DepsOf(cur_target'[1])
         /\ UNCHANGED dep_file ]_vars

\* a pid in the registry has opened a file that is no header and that was
\* not yet a dependency of the current target: it is the newest dependency
C5_Witness ==
  /\ Len(hist) >= 3 /\ pc = "run"
  /\ GoodOpen(Last(hist))
  /\ ~IsHeader(Last(hist).path) /\ ~Denylisted(Last(hist).path)
  /\ Tracked(fps_list, Last(hist).pid)
  /\ CompilerExec(hist[Len(hist) - 1])
  /\ hist[Len(hist) - 1].pid # Last(hist).pid
  /\ cur_target # NULL
  /\ Len(cur_target[1].deps) = 2
  /\ cur_target[1].deps[2] = Last(hist).path

\* C6: a step that reads an execve line whose result is ENOENT changes no
\* target, current or written, registers no pid and writes nothing to the
\* command log, the source list or the sandbox.
C6_FailedExecChangesNothing ==
  [][ ( /\ ReadsLine
        /\ Last(hist').kind = "execve"
        /\ ~Last(hist').ok )
      => UNCHANGED <<cur_target, fps_list, files, pc>> ]_vars

\* a failed execve of a compiler was read while a target was current
C6_Witness ==
  /\ Len(hist) >= 2
  /\ Last(hist).kind = "execve" /\ ~Last(hist).ok
  /\ EndsWith(Last(hist).exe, "/gcc")
  /\ ~Tracked(fps_list, Last(hist).pid)
  /\ cur_target # NULL
  /\ Len(cmds_file) = 1 /\ Len(sources_file) = 1 /\ dep_file = <<>>

\* C7: a step that reads an openat line whose result is ENOENT adds no
\* dependency and changes no target and not the registry.
C7_FailedOpenChangesNothing ==
  [][ ( /\ ReadsLine
        /\ Last(hist').kind = "openat"
        /\ ~Last(hist').ok )
      => UNCHANGED <<cur_target, fps_list, files, pc>> ]_vars

\* a failed openat of a header by a pid in the registry was read, and the
\* header is no dependency
C7_Witness ==
  /\ Len(hist) >= 2
  /\ Last(hist).kind = "openat" /\ ~Last(hist).ok
  /\ IsHeader(Last(hist).path) /\ ~Denylisted(Last(hist).path)
  /\ Tracked(fps_list, Last(hist).pid)
  /\ cur_target # NULL
  /\ Last(hist).path \notin DepsOf(cur_target[1])

\* lines i, i+1, i+2 of h are a fork-begin by p, a successful openat of a
\* header outside the denylist by another pid, and a `vfork resumed`, and a
\* target is current at line i
ForkedHeaderAt(h, i) ==
  /\ i >= 2 /\ i + 2 <= Len(h)
  /\ CompilerExecs(h, i - 1) >= 1
  /\ h[i].kind = "vfork_begin"
  /\ GoodOpen(h[i + 1]) /\ h[i + 1].pid # h[i].pid
  /\ IsHeader(h[i + 1].path) /\ ~Denylisted(h[i + 1].path)
  /\ h[i + 2].kind = "vfork_resumed"

\* C8: when the lines read hold a fork-begin by p, a successful openat of a
\* header outside the denylist by another pid q and a `vfork resumed`, with
\* a target current at the fork-begin, the header is a dependency of that
\* target, and when the resumed line has just been read there are as many
\* targets as before the fork-begin.
C8_ForkedHeaderAttributed ==
  \A i \in 1..Len(hist) :
    ForkedHeaderAt(hist, i) =>
      /\ Len(AllTargets) >= CompilerExecs(hist, i - 1)
      /\ hist[i + 1].path \in DepsOf(AllTargets[CompilerExecs(hist, i - 1)])
      /\ Len(hist) = i + 2 => Len(AllTargets) = CompilerExecs(hist, i - 1)

\* the three lines were read after a compiler execve, the pid q of the
\* openat is not in the registry, and the header is the second dependency
C8_Witness ==
  /\ Len(hist) = 4 /\ pc = "run"
  /\ ForkedHeaderAt(hist, 2)
  /\ ~Tracked(fps_list, hist[3].pid)
  /\ cur_target # NULL
  /\ cur_target[1].deps = <<SourceName(hist[1]), hist[3].path>>
  /\ dep_file = <<>>

\* C9: a step that reads a successful compiler execve of pid q while a
\* fork-begin by another pid p is outstanding puts p into the registry, and
\* no other pid.
C9_ForkedExecRegistersParent ==
  [][ ( /\ ReadsLine
        /\ CompilerExec(Last(hist'))
        /\ ForkOutstanding(hist) # 0
        /\ ForkOutstanding(hist) # Last(hist').pid )
      => /\ Tracked(fps_list', ForkOutstanding(hist))
         /\ \A i \in 1..Len(fps_list') :
              Tracked(fps_list, fps_list'[i]) \/ fps_list'[i] = ForkOutstanding(hist) ]_vars

\* C10: a step that reads a successful openat of a path outside the denylist
\* that is no header, reported by a pid q outside the registry while a
\* fork-begin by a pid p in the registry is outstanding and a target is
\* current, leaves the path in the dependency list of the current target.
C10_ForkedOpenAttributedToParent ==
  [][ ( /\ ReadsLine
        /\ GoodOpen(Last(hist'))
        /\ ~IsHeader(Last(hist').path) /\ ~Denylisted(Last(hist').path)
        /\ ForkOutstanding(hist) # 0
        /\ Tracked(fps_list, ForkOutstanding(hist))
        /\ ~Tracked(fps_list, Last(hist').pid)
        /\ cur_target # NULL )
      => /\ cur_target' # NULL
         /\ Last(hist').path \in DepsOf(cur_target'[1]) ]_vars

\* the number of successful compiler execve lines read so far
CompilerExecsRead == CompilerExecs(hist, Len(hist))

\* C11: every target started by a successful compiler execve is written to
\* the manifest once: while lines are read, all started targets but the
\* current one are written; after the end of the file all of them are; and
\* the program never stops with a started target that was not written.
C11_EveryTargetFinalizedOnce ==
  /\ pc = "run" =>
       Len(dep_file) = (IF CompilerExecsRead = 0 THEN 0 ELSE CompilerExecsRead - 1)
  /\ pc = "done" => Len(dep_file) = CompilerExecsRead
  /\ pc = "crashed" => cur_target = NULL

\* the arguments of an execve as one text, separated by blanks
RECURSIVE ArgText(_)
ArgText(argv) ==
  IF argv = <<>> THEN ""
  ELSE IF Len(argv) = 1 THEN argv[1]
  ELSE argv[1] \o " " \o ArgText(Tail(argv))

\* the k-th successful compiler execve line of h
NthCompilerExec(h, k) ==
  h[CHOOSE i \in 1..Len(h) : CompilerExec(h[i]) /\ CompilerExecs(h, i) = k]

\* C12: the records of the manifest are in the order of the compiler execve
\* lines that started them: the k-th record holds the command of the k-th
\* successful compiler execve of the trace.
C12_ManifestInTraceOrder ==
  \A k \in 1..Len(dep_file) :
    /\ k <= CompilerExecsRead
    /\ dep_file[k].cmd = ArgText(NthCompilerExec(hist, k).argv)

\* two targets of different commands were written
C12_Witness ==
  /\ Len(dep_file) = 2
  /\ dep_file[1].cmd # dep_file[2].cmd
  /\ CompilerExecsRead >= 2

\* C13: no target, current or written, has its own name among its
\* dependencies.
C13_NameNotOwnDependency ==
  \A k \in 1..Len(AllTargets) :
    AllTargets[k].target_name \notin DepsOf(AllTargets[k])

\* the argument list of e has an argument -o
HasOutputOption(e) == \E i \in 1..Len(e.argv) : e.argv[i] = "-o"

\* C14: a step that reads a successful compiler execve without -o leaves
\* the program running, and no target is created for that command.
C14_ExecWithoutOutputDropped ==
  [][ ( /\ ReadsLine
        /\ CompilerExec(Last(hist'))
        /\ ~HasOutputOption(Last(hist')) )
      => /\ pc' = "run"
         /\ \A k \in 1..Len(AllTargets') :
              AllTargets'[k].cmd # ArgText(Last(hist').argv) ]_vars

\* the working directory of pid p after the lines h: the path of its last
\* chdir, the initial directory when it issued none
RECURSIVE DirOf(_, _)
DirOf(h, p) ==
  IF h = <<>> THEN InitialCwd
  ELSE IF Last(h).kind = "chdir" /\ Last(h).ok /\ Last(h).pid = p THEN Last(h).path
  ELSE DirOf(SubSeq(h, 1, Len(h) - 1), p)

\* the argument list of e names a C source
HasSource(e) == \E i \in 2..Len(e.argv) : EndsWith(e.argv[i], ".c")

\* C15: a step that reads a successful compiler execve of pid p, with no
\* fork-begin outstanding, writes the source to the source list under the
\* working directory of p itself: the path of the last chdir issued by p,
\* or the initial directory.
C15_SourceUnderOwnDirectory ==
  [][ ( /\ ReadsLine
        /\ CompilerExec(Last(hist'))
        /\ HasSource(Last(hist'))
        /\ ForkOutstanding(hist) = 0 )
      => sources_file' =
           Append(sources_file,
                  DirOf(hist, Last(hist').pid) \o "/" \o SourceName(Last(hist'))) ]_vars

\* C16: when the fopen of the command log, of the source list or of the
\* manifest fails, the program exits before a line of the trace is read.
C16_OutputOpenFailureExits ==
  (~fopen_ok.cmds \/ ~fopen_ok.sources \/ ~fopen_ok.dep) =>
    (pc \in {"start", "exited"} /\ hist = <<>>)

\* the end of the file is reached in this step
EndsFile == pc = "run" /\ pc' # "run" /\ hist' = hist

\* C17: when only the fopen of the sandbox Makefile failed, a compiler
\* execve that finalizes a target is still processed (its command is logged
\* after the emission), and the end of the file, with no target or with a
\* complete one, is followed by normal termination with the last target in
\* the manifest.
C17_MakefileOpenFailureOnlyLogged ==
  [][ (~fopen_ok.mkfile /\ fopen_ok.dep) =>
        /\ ( /\ ReadsLine
             /\ CompilerExec(Last(hist'))
             /\ cur_target # NULL )
           => cmds_file' = Append(cmds_file, ArgText(Last(hist').argv))
        /\ ( /\ EndsFile
             /\ (cur_target = NULL \/ cur_target[1].deps # <<>>) )
           => (pc' = "done" /\ Len(dep_file') = CompilerExecsRead) ]_vars

\* where the copy of dependency dep belongs
CopyPath(dep) ==
  sandbox_pwd \o (IF SubSeq(dep, 1, 1) = "/" THEN "" ELSE "/") \o dep

\* path and the directories above it, up to the root
RECURSIVE PathAndAncestors(_)
PathAndAncestors(path) ==
  IF path \in {"/", "."} THEN {path}
  ELSE {path} \cup PathAndAncestors(dirname(path))

\* the dependency can be copied: it can be read, and its copy can be written
Copyable(dep) ==
  /\ dep \in DOMAIN disk.src
  /\ PathAndAncestors(CopyPath(dep)) \cap disk.locked = {}

TargetDeps == DepsOf(cur_target[1])

\* C18: after TARGET_copy_deps, every dependency of the target that can be
\* read and whose copy can be written has its copy in the sandbox, wherever
\* it stands in the list relative to the dependencies that cannot; those
\* have no copy.
C18_UncopyableSkipped ==
  pc = "copied" =>
    \A dep \in TargetDeps :
      Copyable(dep) <=> CopyPath(dep) \in DOMAIN sandbox_copies.files

\* of four dependencies the second could not be read and the copy of the
\* third could not be written; the first and the fourth were copied
C18_Witness ==
  /\ pc = "copied"
  /\ Len(cur_target[1].deps) = 4
  /\ cur_target[1].deps[2] \notin DOMAIN disk.src
  /\ cur_target[1].deps[3] \in DOMAIN disk.src
  /\ CopyPath(cur_target[1].deps[3]) \in disk.locked
  /\ DOMAIN sandbox_copies.files =
       {CopyPath(cur_target[1].deps[1]), CopyPath(cur_target[1].deps[4])}

\* C19: after TARGET_copy_deps, every copy in the sandbox holds the bytes of
\* its source, in order, whatever the length of the source is.
C19_CopyIsByteIdentical ==
  pc = "copied" =>
    \A dep \in TargetDeps :
      CopyPath(dep) \in DOMAIN sandbox_copies.files =>
        sandbox_copies.files[CopyPath(dep)] = disk.src[dep]

\* an empty file, a file of exactly one buffer and a file longer than two
\* buffers were copied
C19_Witness ==
  /\ pc = "copied"
  /\ \A dep \in TargetDeps : CopyPath(dep) \in DOMAIN sandbox_copies.files
  /\ Len(disk.src[cur_target[1].deps[1]]) = 0
  /\ Len(disk.src[cur_target[1].deps[2]]) = BUFFER_SIZE
  /\ Len(disk.src[cur_target[1].deps[3]]) > BUFFER_SIZE + BUFFER_SIZE
  /\ Len(sandbox_copies.files[CopyPath(cur_target[1].deps[3])]) > BUFFER_SIZE + BUFFER_SIZE

\* the command with -I<sandbox> put in behind its first token, the name of
\* the compiler
WithSandboxInclude(cmd) ==
  LET blank == IndexFrom(cmd, " ", 0)
  IN Take(cmd, blank) \o " -I" \o sandbox_pwd \o From(cmd, blank)

\* C20: the rule written to the sandbox Makefile for the k-th target of the
\* manifest ends with a tab, the command of the target with -I<sandbox> put
\* in behind the compiler name and nothing else changed, and a newline.
C20_RuleCommandHasSandboxInclude ==
  \A k \in 1..Len(dep_file) :
    /\ Len(sandbox_mkfile) >= k + 1
    /\ EndsWith(sandbox_mkfile[k + 1],
                "\t" \o WithSandboxInclude(dep_file[k].cmd) \o "\n")

\* the names of the targets ts, each behind a blank, in order
RECURSIVE NameList(_)
NameList(ts) ==
  IF ts = <<>> THEN "" ELSE " " \o Head(ts).target_name \o NameList(Tail(ts))

\* C21: after the whole trace is processed, the last text written to the
\* sandbox Makefile is the umbrella rule, behind the rule of every target of
\* the manifest, and its dependencies are exactly the names of the targets of
\* the manifest, in their order.
C21_UmbrellaListsAllTargets ==
  pc = "done" =>
    /\ Len(sandbox_mkfile) = Len(dep_file) + 2
    /\ Last(sandbox_mkfile) = "\nall_make_targets:" \o NameList(dep_file)

\* the last component of the path of the executable of e
ExeName(e) ==
  LET slashes == {i \in 1..Len(e.exe) : SubSeq(e.exe, i, i) = "/"}
  IN IF slashes = {} THEN e.exe
     ELSE SubSeq(e.exe, (CHOOSE i \in slashes : \A j \in slashes : j <= i) + 1, Len(e.exe))

\* a successful execve of the assembler or the linker
BinutilsExec(e) == e.kind = "execve" /\ e.ok /\ ExeName(e) \in {"as", "ld"}

\* C22: a step that reads a successful execve of `as` or `ld` appends one
\* line to the command log: the argument list without quotes and commas.
C22_AssemblerLinkerLogged ==
  [][ (ReadsLine /\ BinutilsExec(Last(hist')))
      => cmds_file' = Append(cmds_file, ArgText(Last(hist').argv)) ]_vars

\* the pids whose fork-begin marker has no `vfork resumed` of the same pid
\* behind it in the lines h
RECURSIVE ForksPending(_)
ForksPending(h) ==
  IF h = <<>> THEN {}
  ELSE LET before == ForksPending(SubSeq(h, 1, Len(h) - 1))
       IN IF Last(h).kind = "vfork_begin" THEN before \cup {Last(h).pid}
          ELSE IF Last(h).kind = "vfork_resumed" THEN before \ {Last(h).pid}
          ELSE before

\* C23: the pid substitution is in force exactly while the fork-begin of
\* some pid is outstanding: a `vfork resumed` of another pid does not end it,
\* and a second fork-begin does not lose the first.
C23_AliasingUntilMatchingResume ==
  vfork <=> ForksPending(hist) # {}

\* C24: no step changes a record of the manifest: the name, the command and
\* the dependencies of a written target stay as they were written, and a
\* step that reads an openat line writes nothing to the manifest.
C24_FinalizedTargetImmutable ==
  [][ /\ Len(dep_file') >= Len(dep_file)
      /\ \A k \in 1..Len(dep_file) : dep_file'[k] = dep_file[k]
      /\ (ReadsLine /\ Last(hist').kind = "openat") => UNCHANGED dep_file ]_vars

\* after a target was written, an openat added a dependency to the new
\* current target that the written target does not have
C24_Witness ==
  /\ pc = "run"
  /\ Len(dep_file) = 1
  /\ GoodOpen(Last(hist))
  /\ cur_target # NULL
  /\ Last(cur_target[1].deps) = Last(hist).path
  /\ Last(hist).path \notin DepsOf(dep_file[1])

\* the step leaves the current target in place: no command was logged
SameTarget == cur_target # NULL /\ cur_target' # NULL /\ cmds_file' = cmds_file

\* C25: while a target is the current one, every step keeps its dependency
\* list as a prefix of the new list and adds at most one entry, at the tail:
\* the path of the line just read, which was not in the list before.
C25_DepsInFirstAcceptedOrder ==
  [][ SameTarget =>
        LET deps == cur_target[1].deps
            after == cur_target'[1].deps
        IN /\ Len(after) >= Len(deps)
           /\ SubSeq(after, 1, Len(deps)) = deps
           /\ Len(after) <= Len(deps) + 1
           /\ Len(after) = Len(deps) + 1 =>
                /\ ReadsLine
                /\ Last(after) = Last(hist').path
                /\ Last(after) \notin DepsOf(cur_target[1]) ]_vars

\* two files were opened one after the other and the first again: the list
\* holds the source and the two files in the order of their first openat
C25_Witness ==
  /\ Len(hist) = 4 /\ pc = "run"
  /\ ScenarioExec(hist[1])
  /\ GoodOpen(hist[2]) /\ GoodOpen(hist[3]) /\ hist[4] = hist[2]
  /\ hist[2].path # hist[3].path
  /\ cur_target # NULL
  /\ cur_target[1].deps = <<SourceName(hist[1]), hist[2].path, hist[3].path>>

\* a successful execve of a compiler, the assembler or the linker
DesiredExec(e) ==
  e.kind = "execve" /\ e.ok /\ ExeName(e) \in {"gcc", "g++", "as", "ld"}

\* the path of the last chdir line among the lines h, "" when there is none
RECURSIVE LastChangeDir(_)
LastChangeDir(h) ==
  IF h = <<>> THEN ""
  ELSE IF Last(h).kind = "chdir" THEN Last(h).path
  ELSE LastChangeDir(SubSeq(h, 1, Len(h) - 1))

\* C26: a step that reads a successful execve of a desired command with a
\* source S, after a chdir line with path D and any number of other lines,
\* appends D/S to the source list.
C26_SourceUnderLastChangeDir ==
  [][ ( /\ ReadsLine
        /\ DesiredExec(Last(hist'))
        /\ HasSource(Last(hist'))
        /\ LastChangeDir(hist) # "" )
      => sources_file' =
           Append(sources_file,
                  LastChangeDir(hist) \o "/" \o SourceName(Last(hist'))) ]_vars

\* C27: a step that reads a successful compiler execve with `-o N` in its
\* argument list, and after which the program runs on, leaves a current
\* target whose name is N, wherever `-o N` stands among the arguments.
C27_TargetNameIsOutputArgument ==
  [][ ( /\ ReadsLine
        /\ CompilerExec(Last(hist'))
        /\ HasOutputOption(Last(hist'))
        /\ pc' = "run" )
      => /\ cur_target' # NULL
         /\ cur_target'[1].target_name = OutputName(Last(hist')) ]_vars

\* the suffixes of source files, in the order of their priority
SourceSuffixes == <<".cc", ".c", ".o", ".s">>

\* the arguments of e behind the command name that end in suffix
ArgsWithSuffix(e, suffix) ==
  {i \in 2..Len(e.argv) : EndsWith(e.argv[i], suffix)}

\* the execve names a file of one of the four suffixes
NamesSource(e) == \E k \in 1..4 : ArgsWithSuffix(e, SourceSuffixes[k]) # {}

\* the argument chosen by suffix priority: the first one of the first suffix
\* in the order of priority that any argument ends in
PrioritySource(e) ==
  LET k == SetMin({j \in 1..4 : ArgsWithSuffix(e, SourceSuffixes[j]) # {}})
  IN e.argv[SetMin(ArgsWithSuffix(e, SourceSuffixes[k]))]

\* C28: a step that reads a successful execve of a desired command whose
\* arguments name files ending in .cc, .c, .o or .s appends to the source
\* list the whole argument chosen by the priority .cc, .c, .o, .s, under the
\* working directory.
C28_SourceBySuffixPriority ==
  [][ ( /\ ReadsLine
        /\ DesiredExec(Last(hist'))
        /\ NamesSource(Last(hist')) )
      => sources_file' =
           Append(sources_file, InitialCwd \o "/" \o PrioritySource(Last(hist'))) ]_vars

MadeDirs == sandbox_copies.dirs

\* every directory was made when its parent was there: the parent is one of
\* the directories that were there from the start or was made before it
RootFirst ==
  \A i \in 1..Len(MadeDirs) :
    \/ dirname(MadeDirs[i]) \in InitialDirs
    \/ \E j \in 1..(i - 1) : MadeDirs[j] = dirname(MadeDirs[i])

\* no directory that was there was made again
ExistingLeftAlone ==
  \A i \in 1..Len(MadeDirs) :
    /\ MadeDirs[i] \notin InitialDirs
    /\ \A j \in 1..(i - 1) : MadeDirs[j] # MadeDirs[i]

\* every directory above the copy of a dependency that can be copied is
\* there
AncestorsMade ==
  \A dep \in TargetDeps :
    Copyable(dep) =>
      \A d \in PathAndAncestors(dirname(CopyPath(dep))) : is_dir(d, MadeDirs)

\* C30: TARGET_copy_deps returns for every list of dependencies, and when it
\* has returned the missing directories above every copy were made, each one
\* after its parent, and no directory that was there was made again.
C30_DirectoriesMadeRootFirst ==
  /\ [](pc = "copied" => (RootFirst /\ ExistingLeftAlone /\ AncestorsMade))
  /\ <>(pc = "copied")

\* three directories below each other were made for the first dependency,
\* and the other two dependencies were copied into two of them
C30_Witness ==
  /\ pc = "copied"
  /\ Len(MadeDirs) = 3
  /\ MadeDirs[1] = dirname(MadeDirs[2])
  /\ MadeDirs[2] = dirname(MadeDirs[3])
  /\ dirname(CopyPath(cur_target[1].deps[1])) = MadeDirs[3]
  /\ dirname(CopyPath(cur_target[1].deps[2])) = MadeDirs[1]
  /\ dirname(CopyPath(cur_target[1].deps[3])) = MadeDirs[2]
  /\ \A dep \in TargetDeps : CopyPath(dep) \in DOMAIN sandbox_copies.files

\* C31: every target, current or written, has at least one dependency, and
\* a step that reads a successful compiler execve leaves a current target
\* whose first dependency is the source of that command, when it names one.
C31_TargetHasSourceAsFirstDep ==
  [][ /\ \A k \in 1..Len(AllTargets') : AllTargets'[k].deps # <<>>
      /\ ( /\ ReadsLine
           /\ Last(hist').kind = "execve" /\ Last(hist').ok
           /\ ExeName(Last(hist')) \in {"gcc", "g++"} )
         => /\ cur_target' # NULL
            /\ cur_target'[1].cmd = ArgText(Last(hist').argv)
            /\ NamesSource(Last(hist')) =>
                 cur_target'[1].deps[1] = PrioritySource(Last(hist')) ]_vars

\* C32: a step that reads a successful openat of a header outside the
\* denylist while no target is current (no compiler execve was read yet)
\* changes nothing but the lines read: no target appears, nothing is written,
\* and the program runs on to the next line.
C32_OpenBeforeFirstTargetIgnored ==
  [][ ( /\ ReadsLine
        /\ GoodOpen(Last(hist'))
        /\ IsHeader(Last(hist').path) /\ ~Denylisted(Last(hist').path)
        /\ cur_target = NULL )
      => /\ pc' = "run"
         /\ cur_target' = NULL
         /\ UNCHANGED <<fps_list, files>> ]_vars

====
